---- MODULE Spec2Model ----
(***************************************************************************)
(* Model of the document-ingestion backend of financialGPT:                *)
(*   - the PDF parser abstraction (PDFParserFactory, parsePDF),            *)
(*   - the upload endpoint  (app/api/upload-documents/route.ts, POST),     *)
(*   - the preview endpoint (the chunk preview route, POST).               *)
(* External collaborators (pdf-parse, the text splitter, the embedding     *)
(* service, the vector store) are modelled by their possible outcomes.     *)
(***************************************************************************)
EXTENDS Integers, Sequences, FiniteSets, TLC

(***************************************************************************)
(* Bounds of the model.                                                    *)
(***************************************************************************)
MaxFiles == 2
MaxChunks == 2
MaxLen == 2

(***************************************************************************)
(* Part 1: the parser abstraction.                                         *)
(***************************************************************************)

\* The value of an option or form field that was not given (undefined/null).
Undefined == "<undefined>"

\* The keys of AVAILABLE_PARSERS, in insertion order (Object.keys/entries).
RegistryOrder == <<"pdf-parse", "mock">>

RegistryKeys == {RegistryOrder[i] : i \in 1..Len(RegistryOrder)}

\* Names a caller can pass as parser type: the registered ones, an
\* unregistered one, and two names every object literal inherits from
\* Object.prototype.
ParserNames == {"pdf-parse", "mock", "pdfjs", "constructor", "toString"}

Features == {"extractText", "extractMetadata", "handleEncrypted",
             "handleImages", "preserveFormatting", "ocrCapability"}

\* supportsFeatures() of the two backends.
SupportsFeatures(name) ==
  IF name = "pdf-parse"
    THEN [f \in Features |-> f \in {"extractText", "extractMetadata"}]
    ELSE [f \in Features |->
            f \in {"extractText", "extractMetadata", "handleEncrypted"}]

\* AVAILABLE_PARSERS[parserType]: a property read on an object literal.  Own
\* keys give the parser class; 'constructor' and 'toString' are found on
\* Object.prototype (the function Object, which `new` can construct, and a
\* built-in method, which it cannot); anything else is undefined.
Lookup(parserType) ==
  IF parserType \in RegistryKeys THEN [kind |-> "class", name |-> parserType]
  ELSE IF parserType = "constructor" THEN [kind |-> "Object", name |-> Undefined]
  ELSE IF parserType = "toString" THEN [kind |-> "method", name |-> Undefined]
  ELSE [kind |-> "undefined", name |-> Undefined]

NoInstance == [name |-> Undefined, hasParse |-> FALSE]

\* PDFParserFactory.create(parserType = 'pdf-parse').
\* Result: the instance returned, or the error thrown.
Create(parserType0) ==
  LET parserType == IF parserType0 = Undefined THEN "pdf-parse" ELSE parserType0
      ParserClass == Lookup(parserType)
  IN  IF ParserClass.kind = "undefined"
        THEN [ok |-> FALSE, error |-> "not found", requested |-> parserType,
              listed |-> RegistryOrder, instance |-> NoInstance]
      ELSE IF ParserClass.kind = "class"
        THEN [ok |-> TRUE, error |-> "none", requested |-> parserType,
              listed |-> <<>>,
              instance |-> [name |-> ParserClass.name, hasParse |-> TRUE]]
      ELSE IF ParserClass.kind = "Object"
        \* new Object(): a plain object, no name, no parse method
        THEN [ok |-> TRUE, error |-> "none", requested |-> parserType,
              listed |-> <<>>, instance |-> NoInstance]
        \* new on a function that is not a constructor
        ELSE [ok |-> FALSE, error |-> "TypeError: not a constructor",
              requested |-> parserType, listed |-> <<>>, instance |-> NoInstance]

\* PDFParserFactory.getAvailableParsers(): one entry per registry key.
GetAvailableParsers ==
  [i \in 1..Len(RegistryOrder) |->
     [name |-> RegistryOrder[i], features |-> SupportsFeatures(RegistryOrder[i])]]

\* Requirements: Partial<PDFParserFeatures>; each capability is "true",
\* "false" or left out (Undefined).
ReqValues == {"true", "false", Undefined}

\* The callback of Object.entries(requirements).every(...).
MeetsStrict(parser, requirements) ==
  \A feature \in Features :
     requirements[feature] = Undefined
       \/ parser.features[feature] = (requirements[feature] = "true")

Meets(parser, requirements) ==
  \A feature \in Features :
     IF requirements[feature] # "true" THEN TRUE
     ELSE parser.features[feature]

RECURSIVE FirstMeeting(_, _, _)
FirstMeeting(parsers, requirements, i) ==
  IF i > Len(parsers) THEN "pdf-parse"
  ELSE IF Meets(parsers[i], requirements) THEN parsers[i].name
  ELSE FirstMeeting(parsers, requirements, i + 1)

\* PDFParserFactory.getBestParser(requirements?).
GetBestParser(given, requirements) ==
  IF ~given THEN "pdf-parse"
  ELSE FirstMeeting(GetAvailableParsers, requirements, 1)

\* The outcome of one backend's parse(buffer).  pdf-parse succeeds or
\* throws, as the library decides, and may extract blank text; the mock
\* backend always returns its sample text.
BackendParse(name, pdfOutcome) ==
  IF name = "mock"
    THEN [status |-> "ok", parserUsed |-> "mock", text |-> "text",
          error |-> "none"]
  ELSE IF pdfOutcome = "throw"
    THEN [status |-> "error", parserUsed |-> Undefined, text |-> "none",
          error |-> "PDF-Parse failed"]
    ELSE [status |-> "ok", parserUsed |-> "pdf-parse", text |-> pdfOutcome,
          error |-> "none"]

PdfOutcomes == {"text", "blank", "throw"}

\* The catch block of parsePDF: fall back to the mock backend?
ShouldFallbackLoose(fallbackToMock, parser) ==
  fallbackToMock \/ parser # "mock"

ShouldFallback(fallbackToMock, parser) ==
  fallbackToMock /\ parser # "mock"

\* parsePDF(buffer, options).  The result carries, besides the parse result
\* or the error thrown, the number of backend parse() calls made
\* (invocations) and of parsePDF activations (activations).
RECURSIVE ParsePDF(_, _, _, _, _)
ParsePDF(parser0, fallback0, reqGiven, requirements, pdfOutcome) ==
  LET parser == IF parser0 # Undefined THEN parser0
                ELSE IF reqGiven THEN GetBestParser(reqGiven, requirements)
                ELSE "pdf-parse"
      fallbackToMock == IF fallback0 = Undefined THEN FALSE
                        ELSE fallback0 = "true"
      created == Create(parser)
      invoked == created.ok /\ created.instance.hasParse
      result ==
        IF ~created.ok
          THEN [status |-> "error", parserUsed |-> Undefined, text |-> "none",
                error |-> created.error]
        ELSE IF ~created.instance.hasParse
          THEN [status |-> "error", parserUsed |-> Undefined, text |-> "none",
                error |-> "TypeError: parse is not a function"]
          ELSE BackendParse(created.instance.name, pdfOutcome)
      n == IF invoked THEN 1 ELSE 0
      mk(r, inv, act, sel) ==
        [status |-> r.status, parserUsed |-> r.parserUsed, text |-> r.text,
         error |-> r.error, invocations |-> inv, activations |-> act,
         selected |-> sel]
  IN  IF result.status = "ok" THEN mk(result, n, 1, parser)
      ELSE IF ShouldFallback(fallbackToMock, parser)
        THEN LET fb == ParsePDF("mock", Undefined, FALSE,
                                [f \in Features |-> Undefined], pdfOutcome)
             IN  mk(fb, n + fb.invocations, 1 + fb.activations, parser)
        ELSE mk(result, n, 1, parser)

(***************************************************************************)
(* State.                                                                  *)
(***************************************************************************)
VARIABLES
  \* a call of one of the parser module's functions
  args,        \* its arguments and the outcome pdf-parse will have
  called,      \* which function was called ("none" before the call)
  createRes,   \* what PDFParserFactory.create returned or threw
  bestRes,     \* what PDFParserFactory.getBestParser returned
  parseRes,    \* what parsePDF returned or threw
  \* one request to the upload or the preview endpoint
  form,        \* the decoded form fields and process.env.NODE_ENV
  pc,          \* the handler's position
  fileIdx,     \* index of the file the file loop is at (1-based)
  chunkIdx,    \* index i of the chunk loop (0-based)
  cur,         \* pdfResult and chunks of the file being processed
  embedded,    \* the embedding of the current chunk was obtained
  totalChunks,
  documentsCount,
  fileLog,     \* per started file, what happened to it
  calls,       \* the embedding and insert requests issued, in order
  store,       \* the rows of documents_enhanced
  store0,      \* the rows before the request
  allChunks,   \* preview: lengths of the chunks collected so far
  extractedMetadata,
  response,
  \* a call of match_feedback_by_embedding
  fbArgs,      \* the feedback table, the arguments and the session setting
  fbRes,       \* the rows returned, or the error raised
  \* the reading of one numeric form field
  fieldArgs,   \* the field read and its text
  fieldRes     \* the number handed to the text splitter

parserVars == <<args, called, createRes, bestRes, parseRes>>

requestVars == <<form, pc, fileIdx, chunkIdx, cur, embedded, totalChunks,
                 documentsCount, fileLog, calls, store, store0, allChunks,
                 extractedMetadata, response>>

pureVars == <<fbArgs, fbRes, fieldArgs, fieldRes>>

vars == <<fbArgs, fbRes, fieldArgs, fieldRes,
          args, called, createRes, bestRes, parseRes, form, pc, fileIdx,
          chunkIdx, cur, embedded, totalChunks, documentsCount, fileLog,
          calls, store, store0, allChunks, extractedMetadata, response>>

NoRequirements == [f \in Features |-> Undefined]

NoParse == [status |-> "none", parserUsed |-> Undefined, text |-> "none",
            error |-> "none", invocations |-> 0, activations |-> 0,
            selected |-> Undefined]

NoCur == [parserUsed |-> Undefined, chunks |-> 0]

NoResponse == [status |-> 0, success |-> FALSE, error |-> "none",
               documentsCount |-> 0, chunksCount |-> 0,
               stats |-> [total_chunks |-> 0, avg_length |-> 0,
                          min_length |-> 0, max_length |-> 0,
                          all_chunks |-> <<>>, parser_used |-> Undefined,
                          files_metadata |-> <<>>]]

NoForm == [files |-> 0, metadata |-> Undefined, splitterOk |-> TRUE,
           pdfParser |-> Undefined, development |-> FALSE]

\* No request is in progress.
RequestIdle ==
  /\ form = NoForm
  /\ pc = <<"none", "idle">>
  /\ fileIdx = 0
  /\ chunkIdx = 0
  /\ cur = NoCur
  /\ embedded = FALSE
  /\ totalChunks = 0
  /\ documentsCount = 0
  /\ fileLog = <<>>
  /\ calls = <<>>
  /\ store = <<>>
  /\ store0 = <<>>
  /\ allChunks = <<>>
  /\ extractedMetadata = <<>>
  /\ response = NoResponse

NoFeedbackArgs == [table |-> <<>>, match_threshold |-> 0, match_count |-> 0,
                   variable_conflict |-> "error"]

NoFeedbackRes == [status |-> "none", rows |-> <<>>]

NoFieldArgs == [name |-> "none", present |-> FALSE, text |-> <<>>]

NoFieldRes == [read |-> FALSE, value |-> 0]

\* Neither the stored procedure nor a form field is being exercised.
PureIdle ==
  /\ fbArgs = NoFeedbackArgs
  /\ fbRes = NoFeedbackRes
  /\ fieldArgs = NoFieldArgs
  /\ fieldRes = NoFieldRes

\* No parser function is being called on its own.
ParserIdle ==
  /\ PureIdle
  /\ args = [parser |-> Undefined, fallbackToMock |-> Undefined,
             reqGiven |-> FALSE, requirements |-> NoRequirements,
             pdfOutcome |-> "text"]
  /\ called = "none"
  /\ createRes = Create(Undefined)
  /\ bestRes = Undefined
  /\ parseRes = NoParse

(***************************************************************************)
(* Part 2: the two endpoints.                                              *)
(***************************************************************************)

\* formData.get('pdfParser') || 'pdf-parse'
FormParser(f) == IF f.pdfParser = Undefined THEN "pdf-parse" ELSE f.pdfParser

\* fallbackToMock: process.env.NODE_ENV === 'development'
FallbackOption(f) == IF f.development THEN "true" ELSE "false"

\* await parsePDF(buffer, { parser: pdfParser, fallbackToMock: ... })
ParseFile(f, pdfOutcome) ==
  ParsePDF(FormParser(f), FallbackOption(f), FALSE, NoRequirements, pdfOutcome)

\* What the handlers record about a file the loop started: the outcome of
\* parsePDF, the text it extracted and the number of chunks splitText
\* returned (0 when splitText was not reached).
FileEntry(res, split) ==
  [status |-> res.status, text |-> res.text, parserUsed |-> res.parserUsed,
   split |-> split]

\* JSON.parse(metadataStr) followed by the construction of the text
\* splitter: TRUE when neither throws.
Prepared(f) == f.metadata # "invalid" /\ f.splitterOk

\* A row that was in documents_enhanced before the request.
OldRow == [file |-> 0, chunk_index |-> 0, total_chunks |-> 1,
           parser_used |-> "pdf-parse"]

\* The metadata field: absent, a JSON object, the JSON text null, or text
\* that is not JSON.  The preview endpoint only parses it and reads nothing
\* of it, so there a JSON object stands for every text that parses.
MetadataFields(endpoint) ==
  IF endpoint = "upload" THEN {Undefined, "valid", "null", "invalid"}
  ELSE {Undefined, "valid", "invalid"}

InitRequest(endpoint) ==
  /\ form \in [files : 0..MaxFiles,
               metadata : MetadataFields(endpoint),
               splitterOk : BOOLEAN,
               pdfParser : {Undefined, "pdfjs"},
               development : BOOLEAN]
  /\ pc = <<endpoint, "validate">>
  /\ fileIdx = 0
  /\ chunkIdx = 0
  /\ cur = NoCur
  /\ embedded = FALSE
  /\ totalChunks = 0
  /\ documentsCount = 0
  /\ fileLog = <<>>
  /\ calls = <<>>
  /\ store0 = <<OldRow>>
  /\ store = store0
  /\ allChunks = <<>>
  /\ extractedMetadata = <<>>
  /\ response = NoResponse

Init ==
  /\ ParserIdle
  /\ \E endpoint \in {"upload", "preview"} : InitRequest(endpoint)

Respond(status, err) ==
  [NoResponse EXCEPT !.status = status, !.error = err]

(***************************************************************************)
(* The upload endpoint.                                                    *)
(***************************************************************************)

\* route.ts 30-36: the two validations, in the order of the code; "ok" when
\* the request passes both.
UploadValidationFilesOnly(f) ==
  IF f.files = 0 THEN "No files provided" ELSE "ok"

UploadValidation(f) ==
  IF f.files = 0 THEN "No files provided"
  ELSE IF f.metadata = Undefined THEN "Metadata is required"
  ELSE "ok"

UploadValidate ==
  /\ pc = <<"upload", "validate">>
  /\ IF UploadValidation(form) # "ok"
       THEN /\ response' = Respond(400, UploadValidation(form))
            /\ pc' = <<"upload", "done">>
       ELSE /\ response' = response
            /\ pc' = <<"upload", "prepare">>
  /\ UNCHANGED <<pureVars, parserVars, form, fileIdx, chunkIdx, cur, embedded,
                 totalChunks, documentsCount, fileLog, calls, store, store0,
                 allChunks, extractedMetadata>>

\* route.ts 41-76: JSON.parse and the splitter; a throw reaches the outer
\* catch (195-200).
UploadPrepare ==
  /\ pc = <<"upload", "prepare">>
  /\ IF Prepared(form)
       THEN /\ pc' = <<"upload", "file">>
            /\ fileIdx' = 1
            /\ response' = response
       ELSE /\ pc' = <<"upload", "done">>
            /\ fileIdx' = fileIdx
            /\ response' = Respond(500, "Internal server error")
  /\ UNCHANGED <<pureVars, parserVars, form, chunkIdx, cur, embedded, totalChunks,
                 documentsCount, fileLog, calls, store, store0, allChunks,
                 extractedMetadata>>

\* route.ts 181-183: the catch block of the file loop logs the error; the
\* loop goes on with the next file.
UploadFileCatchAbort(i) ==
  [pc |-> <<"upload", "done">>, fileIdx |-> i,
   response |-> Respond(500, "Internal server error")]

UploadFileCatch(i) ==
  [pc |-> <<"upload", "file">>, fileIdx |-> i + 1, response |-> NoResponse]

\* route.ts 96-109: is the file skipped with `continue`?
UploadSkipsNever(text, nChunks) == FALSE

UploadSkips(text, nChunks) == text = "blank" \/ nChunks = 0

\* route.ts 78-115: one file up to the chunk loop.
UploadFileBegin ==
  /\ pc = <<"upload", "file">>
  /\ fileIdx <= form.files
  /\ \E pdfOutcome \in PdfOutcomes, n \in 0..MaxChunks :
       LET pdfResult == ParseFile(form, pdfOutcome)
           split == IF pdfResult.status = "ok" /\ pdfResult.text # "blank"
                      THEN n ELSE 0
       IN  /\ fileLog' = Append(fileLog, FileEntry(pdfResult, split))
           /\ IF pdfResult.status = "error"
                THEN /\ pc' = UploadFileCatch(fileIdx).pc
                     /\ fileIdx' = UploadFileCatch(fileIdx).fileIdx
                     /\ response' = UploadFileCatch(fileIdx).response
                     /\ UNCHANGED <<cur, chunkIdx>>
              ELSE IF UploadSkips(pdfResult.text, n)
                THEN /\ fileIdx' = fileIdx + 1
                     /\ UNCHANGED <<pc, cur, chunkIdx, response>>
                ELSE /\ cur' = [parserUsed |-> pdfResult.parserUsed,
                                chunks |-> n]
                     /\ chunkIdx' = 0
                     /\ pc' = <<"upload", "chunk">>
                     /\ UNCHANGED <<fileIdx, response>>
  /\ UNCHANGED <<pureVars, parserVars, form, embedded, totalChunks, documentsCount,
                 calls, store, store0, allChunks, extractedMetadata>>

\* The position after chunk i of n: the next chunk, or line 178.
AfterChunkRetry(i, n) == [pc |-> <<"upload", "chunk">>, chunkIdx |-> i]

AfterChunk(i, n) ==
  IF i + 1 < n THEN [pc |-> <<"upload", "chunk">>, chunkIdx |-> i + 1]
  ELSE [pc |-> <<"upload", "fileEnd">>, chunkIdx |-> i + 1]

\* route.ts 119-130 and 173-175: the context string is built from the
\* metadata and the chunk, then the embedding is requested.  Reading a
\* property of a null metadata throws before the request is issued.
UploadEmbed ==
  /\ pc = <<"upload", "chunk">>
  /\ chunkIdx < cur.chunks
  /\ IF form.metadata = "null"
       THEN /\ pc' = AfterChunk(chunkIdx, cur.chunks).pc
            /\ chunkIdx' = AfterChunk(chunkIdx, cur.chunks).chunkIdx
            /\ UNCHANGED <<calls, embedded>>
       ELSE \E ok \in BOOLEAN :
              /\ calls' = Append(calls, [op |-> "embed", file |-> fileIdx,
                                         chunk |-> chunkIdx, ok |-> ok])
              /\ IF ok
                   THEN /\ pc' = <<"upload", "insert">>
                        /\ embedded' = TRUE
                        /\ UNCHANGED chunkIdx
                   ELSE /\ pc' = AfterChunk(chunkIdx, cur.chunks).pc
                        /\ chunkIdx' = AfterChunk(chunkIdx, cur.chunks).chunkIdx
                        /\ UNCHANGED embedded
  /\ UNCHANGED <<pureVars, parserVars, form, fileIdx, cur, totalChunks, documentsCount,
                 fileLog, store, store0, allChunks, extractedMetadata,
                 response>>

\* route.ts 162-172: totalChunks after an insert answered with chunkError.
TotalAfterInsertAlways(total, chunkError) == total + 1

TotalAfterInsert(total, chunkError) ==
  IF chunkError THEN total ELSE total + 1

\* route.ts 133-172: the insert of the chunk and its embedding.
UploadInsert ==
  /\ pc = <<"upload", "insert">>
  /\ \E chunkError \in BOOLEAN :
       /\ calls' = Append(calls, [op |-> "insert", file |-> fileIdx,
                                  chunk |-> chunkIdx, ok |-> ~chunkError])
       /\ store' = IF chunkError THEN store
                   ELSE Append(store, [file |-> fileIdx,
                                       chunk_index |-> chunkIdx,
                                       total_chunks |-> cur.chunks,
                                       parser_used |-> cur.parserUsed])
       /\ totalChunks' = TotalAfterInsert(totalChunks, chunkError)
  /\ embedded' = FALSE
  /\ pc' = AfterChunk(chunkIdx, cur.chunks).pc
  /\ chunkIdx' = AfterChunk(chunkIdx, cur.chunks).chunkIdx
  /\ UNCHANGED <<pureVars, parserVars, form, fileIdx, cur, documentsCount, fileLog,
                 store0, allChunks, extractedMetadata, response>>

\* route.ts 178-179.
UploadFileEnd ==
  /\ pc = <<"upload", "fileEnd">>
  /\ documentsCount' = documentsCount + 1
  /\ fileIdx' = fileIdx + 1
  /\ pc' = <<"upload", "file">>
  /\ cur' = NoCur
  /\ chunkIdx' = 0
  /\ UNCHANGED <<pureVars, parserVars, form, embedded, totalChunks, fileLog, calls,
                 store, store0, allChunks, extractedMetadata, response>>

\* route.ts 186-193.
UploadRespond ==
  /\ pc = <<"upload", "file">>
  /\ fileIdx > form.files
  /\ response' = [NoResponse EXCEPT !.status = 200, !.success = TRUE,
                                    !.documentsCount = documentsCount,
                                    !.chunksCount = totalChunks]
  /\ pc' = <<"upload", "done">>
  /\ UNCHANGED <<pureVars, parserVars, form, fileIdx, chunkIdx, cur, embedded,
                 totalChunks, documentsCount, fileLog, calls, store, store0,
                 allChunks, extractedMetadata>>

(***************************************************************************)
(* The preview endpoint.                                                   *)
(***************************************************************************)

\* The chunk sequences splitText can return, each chunk given by its length.
ChunkLists == UNION {[1..k -> 1..MaxLen] : k \in 0..MaxChunks}

RECURSIVE Sum(_)
Sum(lens) == IF lens = <<>> THEN 0 ELSE Head(lens) + Sum(Tail(lens))

RECURSIVE Min(_)
Min(lens) ==
  IF Len(lens) = 1 THEN lens[1]
  ELSE LET m == Min(Tail(lens)) IN IF lens[1] < m THEN lens[1] ELSE m

RECURSIVE Max(_)
Max(lens) ==
  IF Len(lens) = 1 THEN lens[1]
  ELSE LET m == Max(Tail(lens)) IN IF lens[1] > m THEN lens[1] ELSE m

\* Math.round(p / q) for p >= 0, q > 0: halves round up.
Round(p, q) == (2 * p + q) \div (2 * q)

\* part_000 151: Math.round(reduce(sum) / totalChunks)
AvgLengthUndivided(chunkLengths) == Sum(chunkLengths)

AvgLength(chunkLengths) == Round(Sum(chunkLengths), Len(chunkLengths))

\* part_000 149-178: the statistics of a non-empty list of chunks.
ChunkStats(chunkLengths, pdfParser, filesMetadata) ==
  [total_chunks |-> Len(chunkLengths),
   avg_length |-> AvgLength(chunkLengths),
   min_length |-> Min(chunkLengths),
   max_length |-> Max(chunkLengths),
   all_chunks |-> chunkLengths,
   parser_used |-> pdfParser,
   files_metadata |-> filesMetadata]

\* part_000 25-27.
PreviewValidate ==
  /\ pc = <<"preview", "validate">>
  /\ IF form.files = 0
       THEN /\ response' = Respond(400, "No files provided")
            /\ pc' = <<"preview", "done">>
       ELSE /\ response' = response
            /\ pc' = <<"preview", "prepare">>
  /\ UNCHANGED <<pureVars, parserVars, form, fileIdx, chunkIdx, cur, embedded,
                 totalChunks, documentsCount, fileLog, calls, store, store0,
                 allChunks, extractedMetadata>>

\* part_000 32-81: metadataStr ? JSON.parse(metadataStr) : {} and the
\* splitter; a throw reaches the outer catch (187-196).
PreviewPrepare ==
  /\ pc = <<"preview", "prepare">>
  /\ IF Prepared(form)
       THEN /\ pc' = <<"preview", "file">>
            /\ fileIdx' = 1
            /\ response' = response
       ELSE /\ pc' = <<"preview", "done">>
            /\ fileIdx' = fileIdx
            /\ response' = Respond(500, "Internal server error")
  /\ UNCHANGED <<pureVars, parserVars, form, chunkIdx, cur, embedded, totalChunks,
                 documentsCount, fileLog, calls, store, store0, allChunks,
                 extractedMetadata>>

\* part_000 133-138: the catch block of the file loop returns a response.
PreviewFileCatchContinue(i) ==
  [pc |-> <<"preview", "file">>, fileIdx |-> i + 1, response |-> NoResponse]

PreviewFileCatch(i) ==
  [pc |-> <<"preview", "done">>, fileIdx |-> i,
   response |-> Respond(400, "Failed to process file")]

\* part_000 84-139: what the file loop does with the chunks of a file,
\* seen from the vector store: it keeps them in memory, the rows of the
\* store stay as they are.
PreviewRowsStored(rows, i, chunks) ==
  rows \o [k \in 1..Len(chunks) |->
             [file |-> i, chunk_index |-> k - 1, total_chunks |-> Len(chunks),
              parser_used |-> Undefined]]

PreviewRows(rows, i, chunks) == rows

\* part_000 84-139: one iteration of the file loop.
PreviewFile ==
  /\ pc = <<"preview", "file">>
  /\ fileIdx <= form.files
  /\ \E pdfOutcome \in PdfOutcomes, chunks \in ChunkLists :
       LET pdfResult == ParseFile(form, pdfOutcome)
           reached == pdfResult.status = "ok" /\ pdfResult.text # "blank"
           split == IF reached THEN Len(chunks) ELSE 0
       IN  /\ fileLog' = Append(fileLog, FileEntry(pdfResult, split))
           /\ IF pdfResult.status = "error"
                THEN /\ pc' = PreviewFileCatch(fileIdx).pc
                     /\ fileIdx' = PreviewFileCatch(fileIdx).fileIdx
                     /\ response' = PreviewFileCatch(fileIdx).response
                     /\ UNCHANGED <<extractedMetadata, allChunks, store>>
                ELSE /\ extractedMetadata' =
                          Append(extractedMetadata,
                                 [file |-> fileIdx,
                                  parserUsed |-> pdfResult.parserUsed])
                     /\ allChunks' = IF reached THEN allChunks \o chunks
                                     ELSE allChunks
                     /\ store' = IF reached
                                   THEN PreviewRows(store, fileIdx, chunks)
                                   ELSE store
                     /\ fileIdx' = fileIdx + 1
                     /\ UNCHANGED <<pc, response>>
  /\ UNCHANGED <<pureVars, parserVars, form, chunkIdx, cur, embedded, totalChunks,
                 documentsCount, calls, store0>>

\* part_000 141-185.
PreviewRespond ==
  /\ pc = <<"preview", "file">>
  /\ fileIdx > form.files
  /\ response' =
       IF Len(allChunks) = 0
         THEN Respond(400, "No chunks could be generated from the files")
         ELSE [NoResponse EXCEPT
                 !.status = 200, !.success = TRUE,
                 !.stats = ChunkStats(allChunks, FormParser(form),
                                      extractedMetadata)]
  /\ pc' = <<"preview", "done">>
  /\ UNCHANGED <<pureVars, parserVars, form, fileIdx, chunkIdx, cur, embedded,
                 totalChunks, documentsCount, fileLog, calls, store, store0,
                 allChunks, extractedMetadata>>

NextUpload ==
  \/ UploadValidate
  \/ UploadPrepare
  \/ UploadFileBegin
  \/ UploadEmbed
  \/ UploadInsert
  \/ UploadFileEnd
  \/ UploadRespond

NextPreview ==
  \/ PreviewValidate
  \/ PreviewPrepare
  \/ PreviewFile
  \/ PreviewRespond

Next == NextUpload \/ NextPreview

\* A request to the upload endpoint.
InitUpload == ParserIdle /\ InitRequest("upload")

SpecUpload == InitUpload /\ [][NextUpload]_vars

\* A request to the preview endpoint.
InitPreview == ParserIdle /\ InitRequest("preview")

SpecPreview == InitPreview /\ [][NextPreview]_vars

\* A request to either endpoint.
Spec == Init /\ [][Next]_vars

(***************************************************************************)
(* Claims about the endpoints (checked under Spec).                        *)
(***************************************************************************)

UploadDone == pc = <<"upload", "done">>

PreviewDone == pc = <<"preview", "done">>

\* The chunks splitText returned during the request: <<file, index>>.
ChunksOfRequest ==
  {<<f, i>> \in (1..Len(fileLog)) \X (0..MaxChunks) : i < fileLog[f].split}

HasCall(op, f, i, ok) ==
  \E k \in 1..Len(calls) :
     calls[k] = [op |-> op, file |-> f, chunk |-> i, ok |-> ok]

Attempted(op, f, i) == HasCall(op, f, i, TRUE) \/ HasCall(op, f, i, FALSE)

\* C1: a failed embedding or insert of chunk i does not stop the chunk
\* loop: every later chunk of the file is still embedded, and inserted when
\* its embedding succeeds; chunksCount is the number of chunks whose
\* embedding succeeded and whose insert returned no error, which is the
\* number of rows the request added to the store.
C1_ChunkFailureIsolated ==
  (UploadDone /\ response.status = 200) =>
     /\ \A c \in ChunksOfRequest :
          (HasCall("embed", c[1], c[2], FALSE) \/ HasCall("insert", c[1], c[2], FALSE))
            => \A j \in (c[2] + 1)..(fileLog[c[1]].split - 1) :
                  /\ Attempted("embed", c[1], j)
                  /\ HasCall("embed", c[1], j, TRUE) => Attempted("insert", c[1], j)
     /\ response.chunksCount =
          Cardinality({c \in ChunksOfRequest :
                         /\ HasCall("embed", c[1], c[2], TRUE)
                         /\ HasCall("insert", c[1], c[2], TRUE)})
     /\ response.chunksCount = Len(store) - Len(store0)

\* One file, several chunks, only the embedding of the first fails.
C1_Witness ==
  /\ UploadDone
  /\ form.files = 1
  /\ Len(fileLog) = 1
  /\ fileLog[1].split >= 2
  /\ HasCall("embed", 1, 0, FALSE)
  /\ response.chunksCount = fileLog[1].split - 1
  /\ response.documentsCount = 1

\* C2 as stated: once the request has a non-empty file list and metadata,
\* every file of the list is processed and the response carries
\* success = true.
C2_AlwaysSuccess ==
  (UploadDone /\ form.files > 0 /\ form.metadata # Undefined) =>
     /\ response.success
     /\ Len(fileLog) = form.files

\* C2 amended: once the request has a non-empty file list and metadata, the
\* metadata has parsed as JSON and the text splitter has been constructed,
\* a failure of a file is caught, every file of the list is processed, and
\* the response carries success = true.
C2_SuccessOnceInFileLoop ==
  (UploadDone /\ form.files > 0 /\ form.metadata \in {"valid", "null"}
     /\ form.splitterOk) =>
     /\ response.status = 200
     /\ response.success
     /\ Len(fileLog) = form.files

\* The first file fails to parse, the second is still processed.
C2_Witness ==
  /\ UploadDone
  /\ form.files = 2
  /\ Len(fileLog) = 2
  /\ fileLog[1].status = "error"
  /\ fileLog[2].status = "ok"
  /\ response.success

\* C3 as stated: documentsCount is the number of files the file loop
\* started to process.
C3_CountsAttempted ==
  (UploadDone /\ response.status = 200) =>
     response.documentsCount = Len(fileLog)

\* C3 amended: documentsCount is the number of files that were parsed,
\* yielded non-blank text and at least one chunk (the files whose chunk
\* loop ran to its end), whatever the outcome of embedding or storing.
C3_CountsChunkedFiles ==
  (UploadDone /\ response.status = 200) =>
     response.documentsCount =
       Cardinality({f \in 1..Len(fileLog) :
                      /\ fileLog[f].status = "ok"
                      /\ fileLog[f].text # "blank"
                      /\ fileLog[f].split > 0})

\* Two files started, one counted, although its embedding failed.
C3_Witness ==
  /\ UploadDone
  /\ Len(fileLog) = 2
  /\ fileLog[1].text = "blank"
  /\ HasCall("embed", 2, 0, FALSE)
  /\ response.documentsCount = 1

NothingDone == fileLog = <<>> /\ calls = <<>> /\ store = store0

\* C4 as stated: an empty file list is answered 400 'No files provided', an
\* absent metadata field 400 'Metadata is required'; nothing is parsed,
\* embedded or inserted; the preview answers 400 to an empty file list.
C4_InvalidRequest400 ==
  /\ (UploadDone /\ form.files = 0) =>
        (response.status = 400 /\ response.error = "No files provided"
         /\ NothingDone)
  /\ (UploadDone /\ form.metadata = Undefined) =>
        (response.status = 400 /\ response.error = "Metadata is required"
         /\ NothingDone)
  /\ (PreviewDone /\ form.files = 0) =>
        (response.status = 400 /\ NothingDone)

\* C4 amended: the file list is checked first, so 'Metadata is required'
\* is the answer when the metadata field is absent and the file list is
\* not empty.
C4_InvalidRequest400InOrder ==
  /\ (UploadDone /\ form.files = 0) =>
        (response.status = 400 /\ response.error = "No files provided"
         /\ NothingDone)
  /\ (UploadDone /\ form.files > 0 /\ form.metadata = Undefined) =>
        (response.status = 400 /\ response.error = "Metadata is required"
         /\ NothingDone)
  /\ (PreviewDone /\ form.files = 0) =>
        (response.status = 400 /\ response.error = "No files provided"
         /\ NothingDone)
  /\ (pc[1] = "upload" /\ (form.files = 0 \/ form.metadata = Undefined))
        => NothingDone

C4_Witness ==
  /\ UploadDone
  /\ form.files > 0
  /\ form.metadata = Undefined
  /\ response.status = 400
  /\ response.error = "Metadata is required"

\* C5: the preview endpoint issues no embedding request and no write to
\* the vector store, whatever its outcome.
C5_PreviewNoSideEffects ==
  pc[1] = "preview" => (store = store0 /\ calls = <<>>)

C5_Witness ==
  /\ PreviewDone
  /\ response.status = 200
  /\ response.stats.total_chunks >= 2
  /\ store0 # <<>>
  /\ store = store0

\* The number of chunks the files of the request yielded.
RECURSIVE SplitTotal(_)
SplitTotal(log) ==
  IF log = <<>> THEN 0 ELSE Head(log).split + SplitTotal(Tail(log))

\* C6: a successful preview has min_length <= avg_length <= max_length,
\* avg_length being the mean of the chunk lengths rounded to the nearest
\* integer, and total_chunks = length of all_chunks >= 1; a request whose
\* files yield no chunk is answered 400 without statistics.
C6_StatsOrdered ==
  /\ (PreviewDone /\ response.status = 200) =>
        LET st == response.stats
            n == Len(st.all_chunks)
            total == Sum(st.all_chunks)
        IN  /\ st.min_length <= st.avg_length
            /\ st.avg_length <= st.max_length
            /\ 2 * n * st.avg_length - n <= 2 * total
            /\ 2 * total < 2 * n * st.avg_length + n
            /\ \A k \in 1..n : st.min_length <= st.all_chunks[k]
                               /\ st.all_chunks[k] <= st.max_length
            /\ st.total_chunks = n
            /\ n >= 1
            /\ n = SplitTotal(fileLog)
  /\ (PreviewDone /\ form.files > 0 /\ form.metadata # "invalid"
        /\ form.splitterOk /\ SplitTotal(fileLog) = 0) =>
        (response.status = 400 /\ response.stats = NoResponse.stats)

\* Chunks of lengths 1 and 2: the mean 1.5 is rounded to 2.
C6_Witness ==
  /\ PreviewDone
  /\ response.status = 200
  /\ response.stats.min_length < response.stats.max_length
  /\ response.stats.total_chunks = 2
  /\ response.stats.avg_length = 2

\* C7 as stated: in the preview endpoint the files after a failing one are
\* still parsed and chunked and their chunks are in the statistics.
C7_PreviewFileFailureIsolated ==
  (PreviewDone /\ \E f \in 1..Len(fileLog) : fileLog[f].status = "error") =>
     /\ Len(fileLog) = form.files
     /\ response.status = 200 => response.stats.total_chunks = SplitTotal(fileLog)

\* C7 amended: in the preview endpoint a failure while processing one file
\* ends the request with HTTP 400 'Failed to process file': the files
\* after the failing one are not parsed and no statistics are returned.
C7_PreviewFileFailureAborts ==
  \A f \in 1..Len(fileLog) :
     (pc[1] = "preview" /\ fileLog[f].status = "error") =>
        /\ f = Len(fileLog)
        /\ PreviewDone
        /\ response.status = 400
        /\ response.error = "Failed to process file"
        /\ response.stats = NoResponse.stats

C7_Witness ==
  /\ PreviewDone
  /\ form.files = 2
  /\ Len(fileLog) = 1
  /\ fileLog[1].status = "error"
  /\ response.status = 400

\* The place of a call in the order of the loops: file, chunk, and the
\* embedding before the insert.
CallBefore(a, b) ==
  \/ a.file < b.file
  \/ a.file = b.file /\ a.chunk < b.chunk
  \/ a.file = b.file /\ a.chunk = b.chunk /\ a.op = "embed" /\ b.op = "insert"

\* The calls were issued one after the other in the order of the loops
\* (each before its successor, hence before all later ones, and none of
\* them twice), and an insert only right after the successful embedding of
\* its chunk.
CallsInOrder ==
  /\ \A k \in 1..(Len(calls) - 1) : CallBefore(calls[k], calls[k + 1])
  /\ \A k \in 1..Len(calls) :
       calls[k].op = "insert" =>
          /\ k > 1
          /\ calls[k - 1] = [op |-> "embed", file |-> calls[k].file,
                             chunk |-> calls[k].chunk, ok |-> TRUE]
  /\ \A k \in 1..Len(calls) :
       /\ calls[k].file \in 1..Len(fileLog)
       /\ calls[k].chunk < fileLog[calls[k].file].split

\* C13 as stated: the calls of a request are sequential, in list and index
\* order, never repeated; an insert is issued only after its chunk's
\* embedding succeeded; for each chunk exactly one embedding request is
\* issued.
C13_SequentialNoRetry ==
  /\ pc[1] = "upload" => CallsInOrder
  /\ (UploadDone /\ response.status = 200) =>
        \A c \in ChunksOfRequest : Attempted("embed", c[1], c[2])

\* C13 amended: as stated, but a chunk has exactly one embedding request
\* only when the metadata parsed to something other than null; when the
\* metadata is the JSON text null no request is issued for any chunk.
C13_SequentialNoRetryAtMostOnce ==
  /\ pc[1] = "upload" => CallsInOrder
  /\ (UploadDone /\ response.status = 200 /\ form.metadata # "null") =>
        \A c \in ChunksOfRequest : Attempted("embed", c[1], c[2])
  /\ (pc[1] = "upload" /\ form.metadata = "null") => calls = <<>>

\* A failed embedding, a failed insert and a second file in one request.
C13_Witness ==
  /\ UploadDone
  /\ Len(calls) = 4
  /\ calls[1] = [op |-> "embed", file |-> 1, chunk |-> 0, ok |-> FALSE]
  /\ calls[2] = [op |-> "embed", file |-> 1, chunk |-> 1, ok |-> TRUE]
  /\ calls[3] = [op |-> "insert", file |-> 1, chunk |-> 1, ok |-> FALSE]
  /\ calls[4] = [op |-> "embed", file |-> 2, chunk |-> 0, ok |-> FALSE]

\* C14: the parser reported is the parser that produced the text: in a
\* successful preview parsing_info.parser_used is the parserUsed of every
\* entry of files_metadata, which is the backend that parsed the file; a
\* row stored by the upload endpoint carries the parserUsed of the parse
\* result of its file.
C14_ProvenancePassedThrough ==
  /\ (PreviewDone /\ response.status = 200) =>
        /\ \A k \in 1..Len(response.stats.files_metadata) :
             /\ response.stats.files_metadata[k].parserUsed
                  = fileLog[response.stats.files_metadata[k].file].parserUsed
             /\ response.stats.files_metadata[k].parserUsed
                  = response.stats.parser_used
  /\ pc[1] = "upload" =>
        \A k \in (Len(store0) + 1)..Len(store) :
           store[k].parser_used = fileLog[store[k].file].parserUsed

\* The part of C14 the code satisfies: the per-file entries and the stored
\* rows carry the parserUsed of the parse result.
C14_PerFileProvenance ==
  /\ (PreviewDone /\ response.status = 200) =>
        \A k \in 1..Len(response.stats.files_metadata) :
           response.stats.files_metadata[k].parserUsed
             = fileLog[response.stats.files_metadata[k].file].parserUsed
  /\ pc[1] = "upload" =>
        \A k \in (Len(store0) + 1)..Len(store) :
           store[k].parser_used = fileLog[store[k].file].parserUsed

(***************************************************************************)
(* Specification of the parser module: each of its functions applied to    *)
(* every argument of the bounded sets.                                     *)
(***************************************************************************)
InitParser ==
  /\ PureIdle
  /\ args \in [parser : ParserNames \cup {Undefined},
               fallbackToMock : {"true", "false", Undefined},
               reqGiven : BOOLEAN,
               requirements : [Features -> ReqValues],
               pdfOutcome : PdfOutcomes]
  /\ (~args.reqGiven => args.requirements = NoRequirements)
  /\ called = "none"
  /\ createRes = Create(Undefined)
  /\ bestRes = Undefined
  /\ parseRes = NoParse
  /\ RequestIdle

CallCreate ==
  /\ called = "none"
  /\ called' = "create"
  /\ createRes' = Create(args.parser)
  /\ UNCHANGED <<args, bestRes, parseRes, requestVars, pureVars>>

CallGetBestParser ==
  /\ called = "none"
  /\ called' = "getBestParser"
  /\ bestRes' = GetBestParser(args.reqGiven, args.requirements)
  /\ UNCHANGED <<args, createRes, parseRes, requestVars, pureVars>>

CallParsePDF ==
  /\ called = "none"
  /\ called' = "parsePDF"
  /\ parseRes' = ParsePDF(args.parser, args.fallbackToMock, args.reqGiven,
                          args.requirements, args.pdfOutcome)
  /\ UNCHANGED <<args, createRes, bestRes, requestVars, pureVars>>

NextParser == CallCreate \/ CallGetBestParser \/ CallParsePDF

SpecParser == InitParser /\ [][NextParser]_vars

(***************************************************************************)
(* Claims about the parser module (checked under SpecParser).              *)
(***************************************************************************)

\* C8: PDFParserFactory.create called with any name that is not a key of
\* the registry fails with an error whose message lists all registered
\* names, and called with a registered name returns an instance of that
\* backend whose name equals the requested name.
C8_CreateRejectsUnregistered ==
  (called = "create" /\ args.parser # Undefined) =>
     IF args.parser \in {"pdf-parse", "mock"}
       THEN createRes.ok /\ createRes.instance.name = args.parser
       ELSE /\ ~createRes.ok
            /\ createRes.error = "not found"
            /\ createRes.listed = <<"pdf-parse", "mock">>

\* The capabilities a request requires: those given as true.
Required(requirements) == {f \in Features : requirements[f] = "true"}

Satisfies(name, requirements) ==
  \A f \in Required(requirements) : SupportsFeatures(name)[f]

\* C9: getBestParser returns the first backend in registry order that
\* supports every required capability; when none does, or when no
\* requirements are given, it returns 'pdf-parse'; capabilities given as
\* false are not requirements.
C9_BestParserFirstMatch ==
  called = "getBestParser" =>
     IF args.reqGiven
          /\ \E i \in 1..2 : Satisfies(<<"pdf-parse", "mock">>[i], args.requirements)
       THEN \E i \in 1..2 :
              /\ bestRes = <<"pdf-parse", "mock">>[i]
              /\ Satisfies(bestRes, args.requirements)
              /\ \A j \in 1..(i - 1) :
                   ~Satisfies(<<"pdf-parse", "mock">>[j], args.requirements)
       ELSE bestRes = "pdf-parse"

C9_Witness ==
  /\ called = "getBestParser"
  /\ args.reqGiven
  /\ args.requirements["handleEncrypted"] = "true"
  /\ args.requirements["extractText"] = "false"
  /\ bestRes = "mock"

\* The backend parsePDF selects, and whether creating or running it fails.
SelectedParser ==
  IF args.parser # Undefined THEN args.parser
  ELSE IF args.reqGiven
    THEN GetBestParser(args.reqGiven, args.requirements)
    ELSE "pdf-parse"

SelectedFails ==
  \/ SelectedParser \notin {"pdf-parse", "mock"}
  \/ SelectedParser = "pdf-parse" /\ args.pdfOutcome = "throw"

SelectedError ==
  IF SelectedParser = "pdf-parse" THEN "PDF-Parse failed"
  ELSE IF SelectedParser = "constructor"
    THEN "TypeError: parse is not a function"
    ELSE Create(SelectedParser).error

\* C10: parsePDF falls back at most once.  When the selected backend fails,
\* fallbackToMock is true and the backend is not 'mock', the result is the
\* mock backend's; when fallbackToMock is false (or the backend is 'mock')
\* the original error is propagated; at most two backend invocations.
C10_FallbackAtMostOnce ==
  called = "parsePDF" =>
     /\ parseRes.invocations <= 2
     /\ parseRes.activations <= 2
     /\ (SelectedFails /\ args.fallbackToMock = "true" /\ SelectedParser # "mock")
          => (parseRes.status = "ok" /\ parseRes.parserUsed = "mock"
              /\ parseRes.activations = 2)
     /\ (SelectedFails /\ ~(args.fallbackToMock = "true" /\ SelectedParser # "mock"))
          => (parseRes.status = "error" /\ parseRes.error = SelectedError
              /\ parseRes.activations = 1)
     /\ ~SelectedFails
          => (parseRes.status = "ok" /\ parseRes.parserUsed = SelectedParser
              /\ parseRes.activations = 1)

C10_Witness ==
  /\ called = "parsePDF"
  /\ SelectedParser = "pdf-parse"
  /\ args.pdfOutcome = "throw"
  /\ args.fallbackToMock = "true"
  /\ parseRes.parserUsed = "mock"
  /\ parseRes.invocations = 2

(***************************************************************************)
(* Part 3: the stored procedure match_feedback_by_embedding.               *)
(***************************************************************************)
MaxRows == 2
MaxDist == 2
MaxCount == 2
MaxCommentLen == 2

\* The comments of the bounded model: texts of blanks and letters.
CommentTexts == UNION {[1..k -> {" ", "a"}] : k \in 0..MaxCommentLen}

\* A row of the feedback table: whether query_embedding is set, its cosine
\* distance to the vector passed to the function, in steps of 1/MaxDist
\* (0 when it is not set), whether comment is set, and its text.
FeedbackRows ==
  {r \in [hasEmbedding : BOOLEAN, dist : 0..MaxDist,
          hasComment : BOOLEAN, comment : CommentTexts] :
     /\ (~r.hasEmbedding => r.dist = 0)
     /\ (~r.hasComment => r.comment = <<>>)}

FeedbackTables == UNION {[1..k -> FeedbackRows] : k \in 0..MaxRows}

\* TRIM(text): the blanks at both ends removed.
RECURSIVE LTrim(_)
LTrim(t) ==
  IF t = <<>> THEN t
  ELSE IF Head(t) = " " THEN LTrim(Tail(t)) ELSE t

RECURSIVE RTrim(_)
RTrim(t) ==
  IF t = <<>> THEN t
  ELSE IF t[Len(t)] = " " THEN RTrim(SubSeq(t, 1, Len(t) - 1)) ELSE t

Trim(t) == RTrim(LTrim(t))

\* plpgsql.variable_conflict: how PL/pgSQL resolves a name of an SQL
\* statement that is both a variable of the function and a column of a
\* table of the statement.  The default is "error".
VariableConflicts == {"error", "use_variable", "use_column"}

\* feedback.query_embedding <=> query_embedding for one row.  The right
\* operand is not qualified: it names the parameter of the function and the
\* column of feedback alike.  Read as the parameter it gives the distance
\* to the input vector; read as the column, the distance of the row's
\* embedding to itself.  A distance to or from NULL is NULL.
Distance(row, conflict) ==
  IF ~row.hasEmbedding THEN [null |-> TRUE, d |-> 0]
  ELSE IF conflict = "use_column" THEN [null |-> FALSE, d |-> 0]
  ELSE [null |-> FALSE, d |-> row.dist]

\* 1 - distance, in the same steps.
Similarity(row, conflict) == MaxDist - Distance(row, conflict).d

\* The WHERE clause; a NULL comparison does not select the row.
Selected(row, threshold, conflict) ==
  /\ ~Distance(row, conflict).null
  /\ Similarity(row, conflict) > threshold
  /\ row.hasComment
  /\ Len(Trim(row.comment)) > 0

\* SELECT ... WHERE ... ORDER BY distance LIMIT match_count: the possible
\* results, as sequences of row numbers; rows at the same distance come in
\* any order.
MatchResults(table, threshold, count, conflict) ==
  LET sel == {i \in 1..Len(table) : Selected(table[i], threshold, conflict)}
      n == IF Cardinality(sel) < count THEN Cardinality(sel) ELSE count
      d(i) == Distance(table[i], conflict).d
  IN  {out \in [1..n -> sel] :
         /\ \A k, m \in 1..n : k < m => (out[k] # out[m] /\ d(out[k]) <= d(out[m]))
         /\ \A i \in sel :
              (\A k \in 1..n : out[k] # i) => \A k \in 1..n : d(out[k]) <= d(i)}

\* match_feedback_by_embedding(query_embedding, match_threshold,
\* match_count): the rows returned (row number and similarity column), or
\* the error the statement raises.
MatchFeedbackByEmbedding(a) ==
  IF a.variable_conflict = "error"
    THEN {[status |-> "error: column reference query_embedding is ambiguous",
           rows |-> <<>>]}
    ELSE {[status |-> "ok",
           rows |-> [k \in 1..Len(out) |->
                       [id |-> out[k],
                        similarity |-> Similarity(a.table[out[k]],
                                                  a.variable_conflict)]]] :
            out \in MatchResults(a.table, a.match_threshold, a.match_count,
                                 a.variable_conflict)}

InitFeedback ==
  /\ fbArgs \in [table : FeedbackTables,
                 match_threshold : 0..MaxDist,
                 match_count : 0..MaxCount,
                 variable_conflict : VariableConflicts]
  /\ fbRes = NoFeedbackRes
  /\ fieldArgs = NoFieldArgs
  /\ fieldRes = NoFieldRes
  /\ args = [parser |-> Undefined, fallbackToMock |-> Undefined,
             reqGiven |-> FALSE, requirements |-> NoRequirements,
             pdfOutcome |-> "text"]
  /\ called = "none"
  /\ createRes = Create(Undefined)
  /\ bestRes = Undefined
  /\ parseRes = NoParse
  /\ RequestIdle

CallMatchFeedback ==
  /\ fbRes.status = "none"
  /\ fbRes' \in MatchFeedbackByEmbedding(fbArgs)
  /\ UNCHANGED <<fbArgs, fieldArgs, fieldRes, parserVars, requestVars>>

NextFeedback == CallMatchFeedback

SpecFeedback == InitFeedback /\ [][NextFeedback]_vars

\* The similarity of row i of the table to the input vector.
TrueSimilarity(i) == MaxDist - fbArgs.table[i].dist

\* Row i has an embedding more similar to the input vector than the
\* threshold and a comment with something other than blanks in it.
Qualifying(i) ==
  /\ fbArgs.table[i].hasEmbedding
  /\ TrueSimilarity(i) > fbArgs.match_threshold
  /\ fbArgs.table[i].hasComment
  /\ \E j \in 1..Len(fbArgs.table[i].comment) : fbArgs.table[i].comment[j] # " "

\* C11: match_feedback_by_embedding returns only rows whose similarity to
\* the input vector is strictly greater than match_threshold and whose
\* comment is non-null and non-empty after trimming, from most to least
\* similar, at most match_count of them, these being the match_count most
\* similar qualifying rows.
C11_MatchFeedback ==
  fbRes.status # "none" =>
     LET rows == fbRes.rows
         ids == {rows[k].id : k \in 1..Len(rows)}
         qualifying == {i \in 1..Len(fbArgs.table) : Qualifying(i)}
     IN  /\ fbRes.status = "ok"
         /\ ids \subseteq qualifying
         /\ Cardinality(ids) = Len(rows)
         /\ \A k \in 1..Len(rows) : rows[k].similarity = TrueSimilarity(rows[k].id)
         /\ \A k, m \in 1..Len(rows) :
              k < m => TrueSimilarity(rows[k].id) >= TrueSimilarity(rows[m].id)
         /\ Len(rows) <= fbArgs.match_count
         /\ (Len(rows) < fbArgs.match_count => ids = qualifying)
         /\ \A i \in qualifying \ ids :
              \A k \in 1..Len(rows) : TrueSimilarity(rows[k].id) >= TrueSimilarity(i)

\* What the statement computes once the name is read as the parameter.
C11_IfReadAsParameter ==
  fbArgs.variable_conflict = "use_variable" => C11_MatchFeedback

(***************************************************************************)
(* Part 4: the numeric form fields chunkSize and chunkOverlap.             *)
(***************************************************************************)
MaxFieldLen == 3

DefaultChunkSize == 5000

DefaultChunkOverlap == 500

Digits == {"0", "1", "2"}

FieldChars == Digits \cup {"-", " ", "a", "."}

\* The texts a client can put in a field of the form.
FieldTexts == UNION {[1..k -> FieldChars] : k \in 0..MaxFieldLen}

DigitValue(c) == IF c = "0" THEN 0 ELSE IF c = "1" THEN 1 ELSE 2

\* The longest prefix of t made of digits.
RECURSIVE DigitPrefix(_)
DigitPrefix(t) ==
  IF t = <<>> \/ Head(t) \notin Digits THEN <<>>
  ELSE <<Head(t)>> \o DigitPrefix(Tail(t))

\* The number a text of digits denotes.
RECURSIVE DigitsValue(_)
DigitsValue(t) ==
  IF t = <<>> THEN 0
  ELSE 10 * DigitsValue(SubSeq(t, 1, Len(t) - 1)) + DigitValue(t[Len(t)])

\* parseInt(text): leading blanks are skipped, a sign is read, then the
\* digits up to the first other character; NaN when there is no digit.
\* formData.get gives null for an absent field, and parseInt(null) is NaN.
ParseInt(present, text) ==
  LET t == LTrim(text)
      negative == t # <<>> /\ Head(t) = "-"
      digits == DigitPrefix(IF negative THEN Tail(t) ELSE t)
  IN  IF ~present \/ digits = <<>> THEN [nan |-> TRUE, value |-> 0]
      ELSE [nan |-> FALSE,
            value |-> IF negative THEN 0 - DigitsValue(digits)
                      ELSE DigitsValue(digits)]

\* n || fallback: NaN and 0 are falsy.
OrDefault(n, fallback) ==
  IF n.nan \/ n.value = 0 THEN fallback ELSE n.value

InitFields ==
  /\ fieldArgs \in [name : {"chunkSize", "chunkOverlap"},
                    present : BOOLEAN,
                    text : FieldTexts]
  /\ (~fieldArgs.present => fieldArgs.text = <<>>)
  /\ fieldRes = NoFieldRes
  /\ fbArgs = NoFeedbackArgs
  /\ fbRes = NoFeedbackRes
  /\ args = [parser |-> Undefined, fallbackToMock |-> Undefined,
             reqGiven |-> FALSE, requirements |-> NoRequirements,
             pdfOutcome |-> "text"]
  /\ called = "none"
  /\ createRes = Create(Undefined)
  /\ bestRes = Undefined
  /\ parseRes = NoParse
  /\ RequestIdle

\* route.ts 18, part_000 13.
ReadChunkSize ==
  /\ fieldArgs.name = "chunkSize"
  /\ ~fieldRes.read
  /\ fieldRes' = [read |-> TRUE,
                  value |-> OrDefault(ParseInt(fieldArgs.present, fieldArgs.text),
                                      DefaultChunkSize)]
  /\ UNCHANGED <<fieldArgs, fbArgs, fbRes, parserVars, requestVars>>

\* route.ts 19, part_000 14.
ReadChunkOverlap ==
  /\ fieldArgs.name = "chunkOverlap"
  /\ ~fieldRes.read
  /\ fieldRes' = [read |-> TRUE,
                  value |-> OrDefault(ParseInt(fieldArgs.present, fieldArgs.text),
                                      DefaultChunkOverlap)]
  /\ UNCHANGED <<fieldArgs, fbArgs, fbRes, parserVars, requestVars>>

NextFields == ReadChunkSize \/ ReadChunkOverlap

SpecFields == InitFields /\ [][NextFields]_vars

\* The text is an integer in decimal notation: an optional minus sign
\* followed by digits only.
IsIntegerText(t) ==
  /\ t # <<>>
  /\ LET ds == IF t[1] = "-" THEN Tail(t) ELSE t
     IN  ds # <<>> /\ \A k \in 1..Len(ds) : ds[k] \in {"0", "1", "2"}

\* The integer such a text denotes.
RECURSIVE Pow10(_)
Pow10(n) == IF n = 0 THEN 1 ELSE 10 * Pow10(n - 1)

RECURSIVE Decimal(_)
Decimal(ds) ==
  IF ds = <<>> THEN 0
  ELSE Pow10(Len(ds) - 1)
         * (IF Head(ds) = "0" THEN 0 ELSE IF Head(ds) = "1" THEN 1 ELSE 2)
       + Decimal(Tail(ds))

IntegerValue(t) ==
  IF t[1] = "-" THEN 0 - Decimal(Tail(t)) ELSE Decimal(t)

FieldDefault == IF fieldArgs.name = "chunkSize" THEN 5000 ELSE 500

\* C12: every integer supplied in the field chunkSize or chunkOverlap is
\* the value handed to the text splitter; the default (5000, 500) is used
\* only when the field is absent or is not an integer.
C12_IntegerFieldsPassedOn ==
  fieldRes.read =>
     /\ (fieldArgs.present /\ IsIntegerText(fieldArgs.text))
          => fieldRes.value = IntegerValue(fieldArgs.text)
     /\ fieldRes.value = FieldDefault
          => (~fieldArgs.present \/ ~IsIntegerText(fieldArgs.text))

\* What the code does: the same, for every integer except 0.
C12_ExceptZero ==
  fieldRes.read =>
     /\ (fieldArgs.present /\ IsIntegerText(fieldArgs.text)
           /\ IntegerValue(fieldArgs.text) # 0)
          => fieldRes.value = IntegerValue(fieldArgs.text)
     /\ (fieldRes.value = FieldDefault /\ fieldArgs.present
           /\ IsIntegerText(fieldArgs.text))
          => IntegerValue(fieldArgs.text) = 0

====
